---- MODULE Spec2Model ----
(***************************************************************************)
(* Request handlers of routes.py over the four tables User, WorkCenter,    *)
(* Department and ProductionOrder, and the per-client session.             *)
(* Text that the handlers parse (the pipe-delimited order entries) is a    *)
(* sequence of one-character strings, so that split, strip and int are     *)
(* computed character by character.                                        *)
(***************************************************************************)
EXTENDS Integers, Sequences, FiniteSets, TLC

VARIABLES users, workcenters, departments, orders, session, pending, posted,
          resp

vars ==
    <<users, workcenters, departments, orders, session, pending, posted,
      resp>>

store == <<users, workcenters, departments, orders>>

(* ------------------------------ bounds -------------------------------- *)

(* The tables grow without limit in the program; each specification stops  *)
(* sending the requests that add rows once a table holds this many.        *)

MaxUsers == 3

\* Spec: the rows WorkCenter, Department and ProductionOrder hold in all
MaxRows == 2

\* SpecOrders: the rows ProductionOrder may hold after a batch
MaxStored == 2

(* ------------------------- text primitives ---------------------------- *)

DigitChars == {"0", "1", "2", "3", "4", "5", "6", "7", "8", "9"}

DigitVal(ch) ==
    CASE ch = "0" -> 0 [] ch = "1" -> 1 [] ch = "2" -> 2 [] ch = "3" -> 3
      [] ch = "4" -> 4 [] ch = "5" -> 5 [] ch = "6" -> 6 [] ch = "7" -> 7
      [] ch = "8" -> 8 [] ch = "9" -> 9

Whitespace == {" "}

RECURSIVE LStrip(_)
LStrip(s) ==
    IF s # <<>> /\ Head(s) \in Whitespace THEN LStrip(Tail(s)) ELSE s

RECURSIVE RStrip(_)
RStrip(s) ==
    IF s # <<>> /\ s[Len(s)] \in Whitespace
    THEN RStrip(SubSeq(s, 1, Len(s) - 1))
    ELSE s

\* str.strip(): leading and trailing whitespace removed
Strip(s) == RStrip(LStrip(s))

\* the fields of s from character i on, cur being the field in progress
RECURSIVE SplitFrom(_, _, _, _)
SplitFrom(s, sep, i, cur) ==
    IF i > Len(s) THEN <<cur>>
    ELSE IF s[i] = sep THEN <<cur>> \o SplitFrom(s, sep, i + 1, <<>>)
    ELSE SplitFrom(s, sep, i + 1, Append(cur, s[i]))

\* str.split(sep): the fields between the occurrences of sep
Split(s, sep) == SplitFrom(s, sep, 1, <<>>)

RECURSIVE DigitsValue(_)
DigitsValue(s) ==
    IF s = <<>> THEN 0
    ELSE IF s[Len(s)] = "_" THEN DigitsValue(SubSeq(s, 1, Len(s) - 1))
    ELSE 10 * DigitsValue(SubSeq(s, 1, Len(s) - 1)) + DigitVal(s[Len(s)])

\* int(str): surrounding whitespace ignored, an optional sign, then decimal
\* digits (single underscores allowed between digits); anything else raises
\* ValueError (ok = FALSE)
PyInt(s) ==
    LET t    == Strip(s)
        neg  == t # <<>> /\ Head(t) = "-"
        body == IF t # <<>> /\ Head(t) \in {"+", "-"} THEN Tail(t) ELSE t
        ok   == /\ body # <<>>
                /\ \A i \in 1..Len(body) : body[i] \in DigitChars \cup {"_"}
                /\ body[1] # "_"
                /\ body[Len(body)] # "_"
                /\ \A i \in 1..(Len(body) - 1) :
                       ~(body[i] = "_" /\ body[i + 1] = "_")
    IN  IF ok
        THEN [ok |-> TRUE,
              val |-> IF neg THEN 0 - DigitsValue(body) ELSE DigitsValue(body)]
        ELSE [ok |-> FALSE, val |-> 0]

(* ------------------------- the models layer --------------------------- *)
(* models.py is not among the sources; what the handlers rely on is taken   *)
(* from the data model: password hashing, the column defaults, the unique   *)
(* username and the foreign keys of ProductionOrder.                        *)

Hash(password) == <<"hash", password>>

\* User.check_password
CheckPassword(user, password) == user.password_hash = Hash(password)

\* column default of is_active on User, WorkCenter and Department
DefaultActive == TRUE

\* unique constraint on User.username, checked when a transaction commits
UsernameUnique(us) ==
    \A i, j \in DOMAIN us : us[i].username = us[j].username => i = j

\* foreign keys of ProductionOrder, checked when a transaction commits
ForeignKeysValid(os, wcs, us) ==
    \A i \in DOMAIN os : /\ os[i].workcenter_id \in DOMAIN wcs
                         /\ os[i].user_id \in DOMAIN us

(* ------------------------------ session ------------------------------- *)

\* session.clear(): no key at all
EmptySession == [k \in {} |-> 0]

\* posted is request.form of the client's save_orders requests (the order
\* type and the orders list); NoForm when it sends none
NoForm == [k \in {} |-> 0]

\* no request of the client is being served
NoRequest == [k \in {} |-> 0]

\* 'user_id' not in session
NotLoggedIn(s) == "user_id" \notin DOMAIN s

SessionGetIsAdmin(s) == IF "is_admin" \in DOMAIN s THEN s.is_admin ELSE FALSE

\* the admin guard, were it to test the login alone
AdminDeniedNoFlag(s) == NotLoggedIn(s)

\* 'user_id' not in session or not session.get('is_admin')
AdminDenied(s) == NotLoggedIn(s) \/ ~SessionGetIsAdmin(s)

(* ----------------------------- responses ------------------------------ *)

NoFlash == <<>>

\* flash(message, category); the message is the pieces of its text
Flash(category, message) == <<category, message>>

Redirect(op, c, to, fl) ==
    [op |-> op, client |-> c, kind |-> "redirect", to |-> to, flash |-> fl]

Render(op, c, template, fl) ==
    [op |-> op, client |-> c, kind |-> "render", to |-> template, flash |-> fl]

\* get_or_404 found no row
NotFound(op, c) ==
    [op |-> op, client |-> c, kind |-> "404", to |-> "", flash |-> NoFlash]

AccessDenied == Flash("error", <<"Access denied. Admin privileges required.">>)

(* ------------------------- login and logout --------------------------- *)

\* the login query, were it to leave out is_active=True
ActiveUsersNamedAnyState(username) ==
    {i \in DOMAIN users : users[i].username = username}

\* User.query.filter_by(username=username, is_active=True)
ActiveUsersNamed(username) ==
    {i \in DOMAIN users : users[i].username = username /\ users[i].is_active}

\* .first(): some row of the query, or None (0) when it has none
First(rows) == IF rows = {} THEN {0} ELSE rows

do_login(c, username, password) ==
    /\ pending[c] = NoRequest
    /\ \E u \in First(ActiveUsersNamed(username)) :
         IF u # 0 /\ CheckPassword(users[u], password)
         THEN /\ session' = [session EXCEPT ![c] =
                    [user_id |-> u, username |-> users[u].username,
                     is_admin |-> users[u].is_admin]]
              /\ resp' = Redirect("do_login", c,
                    IF users[u].is_admin THEN "admin_dashboard" ELSE "menu",
                    NoFlash)
         ELSE /\ session' = session
              /\ resp' = Redirect("do_login", c, "login",
                    Flash("error", <<"Invalid username or password">>))
    /\ UNCHANGED <<posted, store, pending>>

logout(c) ==
    /\ pending[c] = NoRequest
    /\ session' = [session EXCEPT ![c] = EmptySession]
    /\ resp' = Redirect("logout", c, "login",
                  Flash("success", <<"You have been logged out successfully">>))
    /\ UNCHANGED <<posted, store, pending>>

(* ------------------------- read-only handlers ------------------------- *)

\* a handler that only renders a view: the guard, then the template
View(op, c, denied, deniedFlash, template) ==
    /\ pending[c] = NoRequest
    /\ resp' = IF denied THEN Redirect(op, c, "login", deniedFlash)
               ELSE Render(op, c, template, NoFlash)
    /\ UNCHANGED <<posted, store, session, pending>>

menu(c) == View("menu", c, NotLoggedIn(session[c]), NoFlash, "menu.html")

in_orders(c) ==
    View("in_orders", c, NotLoggedIn(session[c]), NoFlash, "in_orders.html")

out_orders(c) ==
    View("out_orders", c, NotLoggedIn(session[c]), NoFlash, "out_orders.html")

\* s.contains(sub)
Contains(s, sub) ==
    \E i \in 0..(Len(s) - Len(sub)) : SubSeq(s, i + 1, i + Len(sub)) = sub

\* the report query, were it to join the active work centers only
ReportRowsActiveOnly(search) ==
    {i \in DOMAIN orders :
        /\ orders[i].workcenter_id \in DOMAIN workcenters
        /\ workcenters[orders[i].workcenter_id].is_active
        /\ orders[i].user_id \in DOMAIN users
        /\ (search # <<>> => Contains(orders[i].production_order, search))}

\* the rows of ProductionOrder joined to WorkCenter and User, filtered by the
\* search text when there is one (the ordering of the rows is not modelled)
ReportRows(search) ==
    {i \in DOMAIN orders :
        /\ orders[i].workcenter_id \in DOMAIN workcenters
        /\ orders[i].user_id \in DOMAIN users
        /\ (search # <<>> => Contains(orders[i].production_order, search))}

reports(c) ==
    View("reports", c, NotLoggedIn(session[c]), NoFlash, "reports.html")

admin_dashboard(c) ==
    View("admin_dashboard", c, AdminDenied(session[c]), AccessDenied,
         "admin_dashboard.html")

admin_users(c) ==
    View("admin_users", c, AdminDenied(session[c]), AccessDenied,
         "admin_users.html")

admin_reports(c) ==
    View("admin_reports", c, AdminDenied(session[c]), AccessDenied,
         "admin_reports.html")

export_excel(c) ==
    /\ pending[c] = NoRequest
    /\ resp' = IF AdminDenied(session[c])
               THEN Redirect("export_excel", c, "login", NoFlash)
               ELSE [op |-> "export_excel", client |-> c, kind |-> "file",
                     to |-> "production_orders.xlsx", flash |-> NoFlash]
    /\ UNCHANGED <<posted, store, session, pending>>

master_data(c) ==
    View("master_data", c, AdminDenied(session[c]), AccessDenied,
         "master_data.html")

(* ---------------------------- save_orders ----------------------------- *)

\* the order, were production_order stored as typed
NewOrderNoStrip(parts, order_type, user_id) ==
    [production_order |-> parts[2],
     workcenter_id    |-> PyInt(parts[1]).val,
     quantity         |-> IF parts[3] # <<>> THEN PyInt(parts[3]).val ELSE 0,
     order_type       |-> order_type,
     user_id          |-> user_id]

\* the ProductionOrder built from the three fields of one entry
NewOrder(parts, order_type, user_id) ==
    [production_order |-> IF parts[2] # <<>> THEN Strip(parts[2]) ELSE <<>>,
     workcenter_id    |-> PyInt(parts[1]).val,
     quantity         |-> IF parts[3] # <<>> THEN PyInt(parts[3]).val ELSE 0,
     order_type       |-> order_type,
     user_id          |-> user_id]

\* int(workcenter_id) or int(quantity) raises ValueError
EntryRaises(parts) ==
    \/ ~PyInt(parts[1]).ok
    \/ (parts[3] # <<>> /\ ~PyInt(parts[3]).ok)

\* the loop over orders_data: the orders added to the database session so
\* far, and whether an entry raised (the loop stops there)
RECURSIVE ProcessOrders(_, _, _)
ProcessOrders(orders_data, order_type, user_id) ==
    IF orders_data = <<>> THEN [raised |-> FALSE, added |-> <<>>]
    ELSE LET order_data == Head(orders_data)
             parts      == Split(order_data, "|")
             rest       == ProcessOrders(Tail(orders_data), order_type, user_id)
         IN  IF order_data = <<>> \/ Len(parts) # 3 \/ parts[1] = <<>>
             THEN rest
             ELSE IF EntryRaises(parts)
             THEN [raised |-> TRUE, added |-> <<>>]
             ELSE [raised |-> rest.raised,
                   added  |-> <<NewOrder(parts, order_type, user_id)>>
                                  \o rest.added]

\* the table, were each order committed as the loop adds it
CommitOrdersPartial(old, res) ==
    IF ForeignKeysValid(old \o res.added, workcenters, users)
    THEN old \o res.added
    ELSE old

\* the table, were the commit to check no foreign key
CommitOrdersUnchecked(old, res) ==
    IF ~res.raised THEN old \o res.added ELSE old

\* db.session.commit(), or db.session.rollback() when the loop or the commit
\* raised: the table after the request
CommitOrders(old, res) ==
    IF ~res.raised /\ ForeignKeysValid(old \o res.added, workcenters, users)
    THEN old \o res.added
    ELSE old

save_orders(c, order_type, orders_data) ==
    /\ pending[c] = NoRequest
    /\ IF NotLoggedIn(session[c])
       THEN /\ orders' = orders
            /\ resp' = Redirect("save_orders", c, "login", NoFlash)
       ELSE LET res == ProcessOrders(orders_data, order_type,
                                     session[c].user_id)
                ok  == /\ ~res.raised
                       /\ ForeignKeysValid(orders \o res.added,
                                           workcenters, users)
            IN  /\ orders' = CommitOrders(orders, res)
                /\ resp' = Redirect("save_orders", c, "menu",
                      IF ok
                      THEN Flash("success",
                                 <<order_type, " orders saved successfully!">>)
                      ELSE Flash("error",
                                 <<"Error saving orders: ",
                                   IF res.raised THEN "ValueError"
                                   ELSE "IntegrityError">>))
    /\ UNCHANGED <<posted, users, workcenters, departments, session,
                   pending>>

(* --------------------------- user handlers ---------------------------- *)

\* a request of some client is between its existence check and its commit
InFlight == {c \in DOMAIN pending : pending[c] # NoRequest}

\* the table, were a refused commit not rolled back
CommitUsersNoRollback(old, new) == new

\* db.session.commit() of a changed User table, or db.session.rollback()
\* when the commit raises
CommitUsers(old, new) == IF UsernameUnique(new) THEN new ELSE old

\* create_user up to the existence check: the guard, the form, the query
create_user_check(c, form) ==
    /\ pending[c] = NoRequest
    /\ IF AdminDenied(session[c])
       THEN /\ resp' = Redirect("create_user", c, "login", NoFlash)
            /\ pending' = pending
       ELSE IF First({i \in DOMAIN users :
                         users[i].username = form.username}) # {0}
       THEN /\ resp' = Redirect("create_user", c, "admin_users",
                          Flash("error", <<"Username already exists">>))
            /\ pending' = pending
       ELSE /\ resp' = resp
            /\ pending' = [pending EXCEPT ![c] = form]
    /\ UNCHANGED <<posted, store, session>>

\* create_user from the insertion on: add, commit or rollback, redirect
create_user_commit(c) ==
    /\ pending[c] # NoRequest
    /\ LET form     == pending[c]
           new_user == [username      |-> form.username,
                        name          |-> form.name,
                        department    |-> form.department,
                        is_admin      |-> form.is_admin,
                        password_hash |-> Hash(form.password),
                        is_active     |-> DefaultActive]
           new      == Append(users, new_user)
       IN  /\ users' = CommitUsers(users, new)
           /\ resp' = Redirect("create_user", c, "admin_users",
                 IF UsernameUnique(new)
                 THEN Flash("success", <<"User created successfully">>)
                 ELSE Flash("error",
                            <<"Error creating user: ", "IntegrityError">>))
    /\ pending' = [pending EXCEPT ![c] = NoRequest]
    /\ UNCHANGED <<posted, workcenters, departments, orders, session>>

\* the fields edit_user assigns from the form
EditedUser(user, form) ==
    [username      |-> form.username,
     name          |-> form.name,
     department    |-> form.department,
     password_hash |-> IF form.password # "" THEN Hash(form.password)
                       ELSE user.password_hash,
     is_admin      |-> form.is_admin,
     is_active     |-> form.is_active]

edit_user(c, user_id, form) ==
    /\ pending[c] = NoRequest
    /\ IF AdminDenied(session[c])
       THEN /\ users' = users
            /\ resp' = Redirect("edit_user", c, "login", NoFlash)
       ELSE IF user_id \notin DOMAIN users
       THEN /\ users' = users
            /\ resp' = NotFound("edit_user", c)
       ELSE LET new == [users EXCEPT ![user_id] = EditedUser(@, form)]
            IN  /\ users' = CommitUsers(users, new)
                /\ resp' = Redirect("edit_user", c, "admin_users",
                      IF UsernameUnique(new)
                      THEN Flash("success", <<"User updated successfully">>)
                      ELSE Flash("error",
                                 <<"Error updating user: ", "IntegrityError">>))
    /\ UNCHANGED <<posted, workcenters, departments, orders, session,
                   pending>>

\* the soft delete, were it to flip the flag
SoftDeleteToggle(row) == [row EXCEPT !.is_active = ~@]

\* row.is_active = False
SoftDelete(row) == [row EXCEPT !.is_active = FALSE]

delete_user(c, user_id) ==
    /\ pending[c] = NoRequest
    /\ IF AdminDenied(session[c])
       THEN /\ users' = users
            /\ resp' = Redirect("delete_user", c, "login", NoFlash)
       ELSE IF user_id \notin DOMAIN users
       THEN /\ users' = users
            /\ resp' = NotFound("delete_user", c)
       ELSE IF user_id = session[c].user_id
       THEN /\ users' = users
            /\ resp' = Redirect("delete_user", c, "admin_users",
                          Flash("error", <<"Cannot delete your own account">>))
       ELSE /\ users' = [users EXCEPT ![user_id] = SoftDelete(@)]
            /\ resp' = Redirect("delete_user", c, "admin_users",
                          Flash("success", <<"User deleted successfully">>))
    /\ UNCHANGED <<posted, workcenters, departments, orders, session,
                   pending>>

(* ---------------- work center and department handlers ----------------- *)

create_workcenter(c, name) ==
    /\ pending[c] = NoRequest
    /\ IF AdminDenied(session[c])
       THEN /\ workcenters' = workcenters
            /\ resp' = Redirect("create_workcenter", c, "login", NoFlash)
       ELSE /\ workcenters' = Append(workcenters,
                   [name |-> name, is_active |-> DefaultActive])
            /\ resp' = Redirect("create_workcenter", c, "master_data",
                   Flash("success", <<"Work center created successfully">>))
    /\ UNCHANGED <<posted, users, departments, orders, session, pending>>

edit_workcenter(c, wc_id, name, is_active) ==
    /\ pending[c] = NoRequest
    /\ IF AdminDenied(session[c])
       THEN /\ workcenters' = workcenters
            /\ resp' = Redirect("edit_workcenter", c, "login", NoFlash)
       ELSE IF wc_id \notin DOMAIN workcenters
       THEN /\ workcenters' = workcenters
            /\ resp' = NotFound("edit_workcenter", c)
       ELSE /\ workcenters' = [workcenters EXCEPT ![wc_id] =
                   [name |-> name, is_active |-> is_active]]
            /\ resp' = Redirect("edit_workcenter", c, "master_data",
                   Flash("success", <<"Work center updated successfully">>))
    /\ UNCHANGED <<posted, users, departments, orders, session, pending>>

delete_workcenter(c, wc_id) ==
    /\ pending[c] = NoRequest
    /\ IF AdminDenied(session[c])
       THEN /\ workcenters' = workcenters
            /\ resp' = Redirect("delete_workcenter", c, "login", NoFlash)
       ELSE IF wc_id \notin DOMAIN workcenters
       THEN /\ workcenters' = workcenters
            /\ resp' = NotFound("delete_workcenter", c)
       ELSE /\ workcenters' = [workcenters EXCEPT ![wc_id] = SoftDelete(@)]
            /\ resp' = Redirect("delete_workcenter", c, "master_data",
                   Flash("success", <<"Work center deleted successfully">>))
    /\ UNCHANGED <<posted, users, departments, orders, session, pending>>

create_department(c, name) ==
    /\ pending[c] = NoRequest
    /\ IF AdminDenied(session[c])
       THEN /\ departments' = departments
            /\ resp' = Redirect("create_department", c, "login", NoFlash)
       ELSE /\ departments' = Append(departments,
                   [name |-> name, is_active |-> DefaultActive])
            /\ resp' = Redirect("create_department", c, "master_data",
                   Flash("success", <<"Department created successfully">>))
    /\ UNCHANGED <<posted, users, workcenters, orders, session, pending>>

edit_department(c, dept_id, name, is_active) ==
    /\ pending[c] = NoRequest
    /\ IF AdminDenied(session[c])
       THEN /\ departments' = departments
            /\ resp' = Redirect("edit_department", c, "login", NoFlash)
       ELSE IF dept_id \notin DOMAIN departments
       THEN /\ departments' = departments
            /\ resp' = NotFound("edit_department", c)
       ELSE /\ departments' = [departments EXCEPT ![dept_id] =
                   [name |-> name, is_active |-> is_active]]
            /\ resp' = Redirect("edit_department", c, "master_data",
                   Flash("success", <<"Department updated successfully">>))
    /\ UNCHANGED <<posted, users, workcenters, orders, session, pending>>

delete_department(c, dept_id) ==
    /\ pending[c] = NoRequest
    /\ IF AdminDenied(session[c])
       THEN /\ departments' = departments
            /\ resp' = Redirect("delete_department", c, "login", NoFlash)
       ELSE IF dept_id \notin DOMAIN departments
       THEN /\ departments' = departments
            /\ resp' = NotFound("delete_department", c)
       ELSE /\ departments' = [departments EXCEPT ![dept_id] = SoftDelete(@)]
            /\ resp' = Redirect("delete_department", c, "master_data",
                   Flash("success", <<"Department deleted successfully">>))
    /\ UNCHANGED <<posted, users, workcenters, orders, session, pending>>

(* --------------------------- specifications --------------------------- *)

Clients == {"c1", "c2"}

AdminRow ==
    [username |-> "admin", name |-> "", department |-> "",
     password_hash |-> Hash("pw"), is_admin |-> TRUE, is_active |-> TRUE]

NoResponse ==
    [op |-> "", client |-> "", kind |-> "", to |-> "", flash |-> NoFlash]

\* the database as first deployed: the administrator's account alone
InitDatabase ==
    /\ users = <<AdminRow>>
    /\ workcenters = <<>>
    /\ departments = <<>>
    /\ orders = <<>>

NoClientActive ==
    /\ session = [c \in Clients |-> EmptySession]
    /\ pending = [c \in Clients |-> NoRequest]
    /\ resp = NoResponse

\* the fields create_user reads from its form
CreateForms(usernames, passwords, names, depts) ==
    [username : usernames, password : passwords, name : names,
     department : depts, is_admin : BOOLEAN]

\* the fields edit_user reads from its form
EditForms(usernames, passwords, names, depts) ==
    [username : usernames, password : passwords, name : names,
     department : depts, is_admin : BOOLEAN, is_active : BOOLEAN]

\* the ids a request can name: every row of the table, and one that is absent
Ids(table) == 1..(Len(table) + 1)

RowCount == Len(workcenters) + Len(departments) + Len(orders)

Usernames == {"admin", "bob"}

Passwords == {"pw", "bad"}

(* Spec: every handler, one client, the smallest forms *)

\* the form that creates the operator bob
SmallCreateForms ==
    {f \in CreateForms({"bob"}, {"pw"}, {""}, {""}) : ~f.is_admin}

\* the edit form of a user as the page shows it, the active checkbox set
\* either way
SmallEditForms(user) ==
    EditForms({user.username}, {""}, {user.name}, {user.department})

RowOr(table, id, default) == IF id \in DOMAIN table THEN table[id] ELSE default

\* one entry that is stored, and one naming a work center that is absent
SmallForms ==
    {[order_type |-> "IN", orders |-> <<<<"1", "|", "P", "O", "|", "5">>>>],
     [order_type |-> "IN", orders |-> <<<<"9", "|", "P", "O", "|", "5">>>>]}

Init == InitDatabase /\ NoClientActive /\ posted \in SmallForms

Next ==
    \E c \in {"c1"} :
        \/ \E u \in Usernames, p \in Passwords : do_login(c, u, p)
        \/ logout(c)
        \/ menu(c)
        \/ in_orders(c)
        \/ out_orders(c)
        \/ /\ RowCount < MaxRows
           /\ save_orders(c, posted.order_type, posted.orders)
        \/ reports(c)
        \/ admin_dashboard(c)
        \/ admin_users(c)
        \/ /\ Len(users) + Cardinality(InFlight) < MaxUsers
           /\ \E f \in SmallCreateForms : create_user_check(c, f)
        \/ create_user_commit(c)
        \/ \E id \in Ids(users) :
               \E f \in SmallEditForms(RowOr(users, id, AdminRow)) :
                   edit_user(c, id, f)
        \/ \E id \in Ids(users) : delete_user(c, id)
        \/ admin_reports(c)
        \/ export_excel(c)
        \/ master_data(c)
        \/ RowCount < MaxRows /\ create_workcenter(c, "Lathe")
        \/ \E id \in Ids(workcenters), a \in BOOLEAN :
               edit_workcenter(c, id, "Lathe", a)
        \/ \E id \in Ids(workcenters) : delete_workcenter(c, id)
        \/ RowCount < MaxRows /\ create_department(c, "QA")
        \/ \E id \in Ids(departments), a \in BOOLEAN :
               edit_department(c, id, "QA", a)
        \/ \E id \in Ids(departments) : delete_department(c, id)

Spec == Init /\ [][Next]_vars

(* SpecUsers: the session and user handlers, two clients whose requests   *)
(* interleave between create_user's existence check and its commit        *)

UserCreateForms == CreateForms(Usernames, {"pw"}, {""}, {""})

UserEditForms == EditForms(Usernames, {""}, {""}, {""})

NextUsers ==
    \E c \in Clients :
        \/ \E u \in Usernames, p \in Passwords : do_login(c, u, p)
        \/ logout(c)
        \/ admin_users(c)
        \/ /\ Len(users) + Cardinality(InFlight) < MaxUsers
           /\ \E f \in UserCreateForms : create_user_check(c, f)
        \/ create_user_commit(c)
        \/ \E id \in Ids(users), f \in UserEditForms : edit_user(c, id, f)
        \/ \E id \in Ids(users) : delete_user(c, id)

InitUsers == InitDatabase /\ NoClientActive /\ posted = NoForm

SpecUsers == InitUsers /\ [][NextUsers]_vars

(* SpecLogin: one client logging in and out while the accounts are        *)
(* renamed, given new passwords, promoted, demoted and deactivated        *)

LoginPasswords == {"pw", "new", "bad"}

LoginEditForms == EditForms(Usernames, {"", "new"}, {""}, {""})

NextLogin ==
    \E c \in {"c1"} :
        \/ \E u \in Usernames, p \in LoginPasswords : do_login(c, u, p)
        \/ logout(c)
        \/ /\ Len(users) + Cardinality(InFlight) < MaxUsers
           /\ \E f \in UserCreateForms : create_user_check(c, f)
        \/ create_user_commit(c)
        \/ \E id \in Ids(users), f \in LoginEditForms : edit_user(c, id, f)
        \/ \E id \in Ids(users) : delete_user(c, id)

SpecLogin == InitUsers /\ [][NextLogin]_vars

(* SpecOrders: save_orders applied to batches of entries, on a database   *)
(* that holds an operator and two work centers                            *)

BobRow ==
    [username |-> "bob", name |-> "Bob", department |-> "QA",
     password_hash |-> Hash("pw"), is_admin |-> FALSE, is_active |-> TRUE]

\* an order bob saved earlier
PriorOrder ==
    [production_order |-> <<"P", "O", "1">>, workcenter_id |-> 1,
     quantity |-> 1, order_type |-> "IN", user_id |-> 2]

OrdersDatabase ==
    /\ users = <<AdminRow, BobRow>>
    /\ workcenters = <<[name |-> "Lathe", is_active |-> TRUE],
                       [name |-> "Mill", is_active |-> TRUE]>>
    /\ departments = <<>>
    /\ orders \in {<<>>, <<PriorOrder>>}

Entries ==
    {<<"1", "|", "P", "O", "1", "0", "0", "|", "5", "0">>,
     <<"|", "P", "O", "2", "0", "0", "|", "1", "0">>,
     <<"2", "|", "P", "O", "3", "0", "0", "|">>,
     <<>>,
     <<"1", "|", "A">>,
     <<"1", "|", " ", "P", " ", "|", "-", "5">>,
     <<"x", "|", "P", "|", "1">>,
     <<"1", "|", "P", "|", "x">>,
     <<"9", "|", "P", "|", "1">>,
     <<" ", "2", " ", "|", " ", "Q", " ", "|", "+", "7">>,
     <<"1", "|", "P", "|", " ">>,
     <<"1", "|", "a", "|", "b", "|", "c">>}

ExampleBatch ==
    <<<<"1", "|", "P", "O", "1", "0", "0", "|", "5", "0">>,
      <<"|", "P", "O", "2", "0", "0", "|", "1", "0">>,
      <<"2", "|", "P", "O", "3", "0", "0", "|">>>>

\* the batches of at most two entries, and the three-entry example
Batches ==
    {<<>>} \cup {<<e>> : e \in Entries} \cup {<<e, f>> : e, f \in Entries}
        \cup {ExampleBatch}

OrderTypes == {"IN", "OUT"}

InitOrders ==
    /\ OrdersDatabase
    /\ NoClientActive
    /\ posted \in [order_type : OrderTypes, orders : Batches]

NextOrders ==
    \E c \in {"c1"} :
        \/ \E p \in Passwords : do_login(c, "bob", p)
        \/ logout(c)
        \/ /\ Len(orders) < MaxStored
           /\ save_orders(c, posted.order_type, posted.orders)
        \/ reports(c)

SpecOrders == InitOrders /\ [][NextOrders]_vars

(* ------------------------------ claims -------------------------------- *)

SessionHandlers == {"menu", "in_orders", "out_orders", "save_orders", "reports"}

AdminHandlers ==
    {"admin_dashboard", "admin_users", "create_user", "edit_user",
     "delete_user", "admin_reports", "export_excel", "master_data",
     "create_workcenter", "edit_workcenter", "delete_workcenter",
     "create_department", "edit_department", "delete_department"}

\* the step answers a request, whose handler ran in this step from its guard on
Answers ==
    /\ resp' # resp \/ store' # store \/ session' # session
    /\ pending' = pending

\* C1: a protected handler invoked with no user_id in the session, and an
\* /admin/* handler invoked with a session whose is_admin flag is not true,
\* redirects to login and changes nothing in the store.
C1_GuardRejects ==
    [][(/\ Answers
        /\ resp'.op \in SessionHandlers \cup AdminHandlers
        /\ \/ "user_id" \notin DOMAIN session[resp'.client]
           \/ /\ resp'.op \in AdminHandlers
              /\ \/ "is_admin" \notin DOMAIN session[resp'.client]
                 \/ session[resp'.client].is_admin # TRUE)
       => /\ resp'.kind = "redirect"
          /\ resp'.to = "login"
          /\ store' = store]_vars

\* an operator (logged in, not an admin) was turned away from edit_user
C1_Witness ==
    /\ resp.op = "edit_user"
    /\ resp.to = "login"
    /\ "user_id" \in DOMAIN session["c1"]
    /\ ~session["c1"].is_admin
    /\ Len(users) > 1

\* C5 (as stated): no request made within a session deactivates the User
\* whose id is that session's user_id.
C5_NoSelfDeactivation ==
    [][\A c \in Clients :
          (/\ resp'.client = c
           /\ "user_id" \in DOMAIN session[c]
           /\ session[c].user_id \in DOMAIN users
           /\ users[session[c].user_id].is_active)
          => users'[session[c].user_id].is_active]_vars

C7_OrdersReferToRows ==
    \A i \in DOMAIN orders :
        /\ \E w \in DOMAIN workcenters : orders[i].workcenter_id = w
        /\ \E u \in DOMAIN users : orders[i].user_id = u

\* an order whose work center and whose user are both soft-deleted
C7_Witness ==
    /\ orders # <<>>
    /\ ~workcenters[orders[1].workcenter_id].is_active
    /\ ~users[orders[1].user_id].is_active

\* C10 (as stated): once is_active of a User, WorkCenter or Department is
\* false it never becomes true again.
C10_NeverReactivated ==
    [][/\ \A i \in DOMAIN users : ~users[i].is_active => ~users'[i].is_active
       /\ \A i \in DOMAIN workcenters :
              ~workcenters[i].is_active => ~workcenters'[i].is_active
       /\ \A i \in DOMAIN departments :
              ~departments[i].is_active => ~departments'[i].is_active]_vars

\* C10 (amended): an inactive User, WorkCenter or Department becomes active
\* again only through edit_user, edit_workcenter or edit_department
\* respectively; the create and delete handlers never reactivate a row.
C10_ReactivatedOnlyByEdit ==
    [][/\ \A i \in DOMAIN users :
              (~users[i].is_active /\ users'[i].is_active)
              => resp'.op = "edit_user"
       /\ \A i \in DOMAIN workcenters :
              (~workcenters[i].is_active /\ workcenters'[i].is_active)
              => resp'.op = "edit_workcenter"
       /\ \A i \in DOMAIN departments :
              (~departments[i].is_active /\ departments'[i].is_active)
              => resp'.op = "edit_department"]_vars

\* delete_user has just left a user inactive
C10_Witness ==
    /\ resp.op = "delete_user"
    /\ resp.flash = Flash("success", <<"User deleted successfully">>)
    /\ \E i \in DOMAIN users : ~users[i].is_active

\* C2: do_login writes the user's id, name and admin flag into the session
\* and redirects by role exactly when an active User row has the submitted
\* username and the submitted password verifies against it; otherwise it
\* leaves the session as it was, flashes the error and redirects to login.
C2_LoginByCredentials ==
    [][(Answers /\ resp'.op = "do_login") =>
         \A u \in Usernames, p \in LoginPasswords :
            do_login(resp'.client, u, p) =>
               LET c    == resp'.client
                   good == {i \in DOMAIN users :
                               /\ users[i].username = u
                               /\ users[i].is_active
                               /\ users[i].password_hash = Hash(p)}
               IN  IF good # {}
                   THEN \E i \in good :
                          /\ session'[c] = [user_id |-> i, username |-> u,
                                            is_admin |-> users[i].is_admin]
                          /\ resp'.kind = "redirect"
                          /\ resp'.to = IF users[i].is_admin
                                        THEN "admin_dashboard" ELSE "menu"
                   ELSE /\ session' = session
                        /\ resp'.kind = "redirect"
                        /\ resp'.to = "login"
                        /\ resp'.flash # NoFlash
                        /\ resp'.flash[1] = "error"]_vars

\* a login was refused although an account is inactive or has another password
C2_Witness ==
    /\ resp.op = "do_login"
    /\ resp.to = "login"
    /\ session["c1"] = EmptySession
    /\ \E i \in DOMAIN users : ~users[i].is_active
    /\ \E i \in DOMAIN users : users[i].password_hash = Hash("new")

(* the entry format, read off the text of an entry *)

Pipes(e) == {i \in 1..Len(e) : e[i] = "|"}

\* "workcenter_id|production_order|quantity" with a non-empty workcenter_id
Qualifies(e) == Cardinality(Pipes(e)) = 2 /\ e[1] # "|"

FirstPipe(e) == CHOOSE i \in Pipes(e) : \A j \in Pipes(e) : i <= j

LastPipe(e) == CHOOSE i \in Pipes(e) : \A j \in Pipes(e) : j <= i

WorkcenterText(e) == SubSeq(e, 1, FirstPipe(e) - 1)

OrderText(e) == SubSeq(e, FirstPipe(e) + 1, LastPipe(e) - 1)

QuantityText(e) == SubSeq(e, LastPipe(e) + 1, Len(e))

\* an entry whose workcenter_id or non-blank quantity is not an integer
NotAnInteger(e) ==
    /\ Qualifies(e)
    /\ \/ ~PyInt(WorkcenterText(e)).ok
       \/ QuantityText(e) # <<>> /\ ~PyInt(QuantityText(e)).ok

\* an entry naming a work center that has no row
NoSuchWorkcenter(e) ==
    /\ Qualifies(e)
    /\ PyInt(WorkcenterText(e)).ok
    /\ PyInt(WorkcenterText(e)).val \notin DOMAIN workcenters

BatchRaises(b) ==
    \E k \in DOMAIN b : NotAnInteger(b[k]) \/ NoSuchWorkcenter(b[k])

\* the step answers a save_orders request of a logged-in client
SavesOrders ==
    /\ Answers
    /\ resp'.op = "save_orders"
    /\ "user_id" \in DOMAIN session[resp'.client]

ExpectedOrder(e, order_type, user_id) ==
    [production_order |-> Strip(OrderText(e)),
     workcenter_id    |-> PyInt(WorkcenterText(e)).val,
     quantity         |-> IF QuantityText(e) = <<>> THEN 0
                          ELSE PyInt(QuantityText(e)).val,
     order_type       |-> order_type,
     user_id          |-> user_id]

\* C4: a batch that raises nothing inserts exactly one order per qualifying
\* entry, in order, with the integer workcenter_id, the trimmed
\* production_order, the integer quantity (0 when blank), the batch's order
\* type and the session's user_id; the example batch inserts two orders,
\* with quantities 50 and 0.
C4_InsertedOrders ==
    [][(SavesOrders /\ ~BatchRaises(posted.orders)) =>
         LET q   == SelectSeq(posted.orders, Qualifies)
             uid == session[resp'.client].user_id
             new == SubSeq(orders', Len(orders) + 1, Len(orders'))
         IN  /\ new = [k \in 1..Len(q) |->
                          ExpectedOrder(q[k], posted.order_type, uid)]
             /\ posted.orders = ExampleBatch =>
                   new = <<[production_order |-> <<"P", "O", "1", "0", "0">>,
                            workcenter_id |-> 1, quantity |-> 50,
                            order_type |-> posted.order_type,
                            user_id |-> uid],
                           [production_order |-> <<"P", "O", "3", "0", "0">>,
                            workcenter_id |-> 2, quantity |-> 0,
                            order_type |-> posted.order_type,
                            user_id |-> uid]>>
             /\ posted.orders =
                    <<<<" ", "2", " ", "|", " ", "Q", " ", "|", "+", "7">>>> =>
                   new = <<[production_order |-> <<"Q">>,
                            workcenter_id |-> 2, quantity |-> 7,
                            order_type |-> posted.order_type,
                            user_id |-> uid]>>]_vars

\* the example batch was saved after an earlier order
C4_Witness ==
    /\ resp.op = "save_orders"
    /\ resp.flash # NoFlash
    /\ resp.flash[1] = "success"
    /\ posted.orders = ExampleBatch
    /\ Len(orders) = 3
    /\ orders[2].quantity = 50
    /\ orders[3].quantity = 0

\* C8 (as stated): every stored order has a quantity of at least 0.
C8_QuantityNonNegative == \A i \in DOMAIN orders : orders[i].quantity >= 0

\* C9: no two User rows have the same username, whatever the interleaving
\* of requests; create_user with a username that exists flashes an error and
\* inserts no row, and an edit_user refused for a duplicate leaves the
\* edited user's fields as they were.
C9_UsernamesUnique ==
    [][/\ \A i, j \in DOMAIN users' :
              users'[i].username = users'[j].username => i = j
       /\ (Answers /\ resp'.op = "create_user") =>
              \A f \in UserCreateForms :
                 (/\ create_user_check(resp'.client, f)
                  /\ ~AdminDenied(session[resp'.client])
                  /\ \E i \in DOMAIN users : users[i].username = f.username)
                 => /\ users' = users
                    /\ resp'.flash =
                           Flash("error", <<"Username already exists">>)
       /\ \A c \in Clients :
              (/\ pending[c] # NoRequest
               /\ pending'[c] = NoRequest
               /\ \E i \in DOMAIN users :
                      users[i].username = pending[c].username)
              => /\ users' = users
                 /\ resp'.flash # NoFlash
                 /\ resp'.flash[1] = "error"
       /\ (/\ resp'.op = "edit_user"
           /\ resp'.flash # NoFlash
           /\ resp'.flash[1] = "error")
              => users' = users
       /\ (/\ Answers
           /\ resp'.op = "edit_user"
           /\ resp'.flash = Flash("success", <<"User updated successfully">>))
              => \A i \in DOMAIN users :
                    users'[i] # users[i] =>
                       \A j \in DOMAIN users \ {i} :
                          users[j].username # users'[i].username]_vars

\* the commit of a create_user was refused: another client's create_user
\* with the same username committed after this one's existence check
C9_Witness ==
    /\ resp.op = "create_user"
    /\ resp.flash =
           Flash("error", <<"Error creating user: ", "IntegrityError">>)
    /\ Len(users) = 2

====
